---- MODULE Spec2Model ----
(***************************************************************************)
(* clusterpluk: for every cluster of a CD-HIT style cluster file, pick one *)
(* representative read pair (majority sequence, best quality) and write it *)
(* to two FASTQ outputs.  Model of src/clusterpluk/src/main.rs.            *)
(*                                                                         *)
(* Text is modelled as tuples of one-character strings, FASTQ records as   *)
(* [id, seq, qual] with qual the tuple of the quality bytes.               *)
(***************************************************************************)
EXTENDS Integers, Sequences, FiniteSets, TLC

VARIABLES r1_index, r2_index, i, line, cluster, cluster_count, out1, out2,
          pc, reported, completed, skipped, runA, runB,
          r1_file, r2_file, r1_read, r2_read, since

vars == <<r1_index, r2_index, i, line, cluster, cluster_count, out1, out2,
          pc, reported, completed, skipped, runA, runB,
          r1_file, r2_file, r1_read, r2_read, since>>

\* the two read files and the number of records read from each
reader_vars == <<r1_file, r2_file, r1_read, r2_read>>

(* ---------------------------- bounds ----------------------------------- *)
\* number of cluster-file lines read before end of input is forced
MaxLines == 5
\* largest cluster handed to the selector in the selector-only specification
MaxSel == 3
\* largest number of records of a read file in the index-only specification
MaxRecs == 3

(* --------------------------- helpers ----------------------------------- *)
SetMax(S) == CHOOSE x \in S : \A y \in S : y <= x
SetMin(S) == CHOOSE x \in S : \A y \in S : x <= y

(* ------------------------- FASTQ input files --------------------------- *)
\* the Phred+33 offset of a quality byte
PhredOffset == 33

\* the quality bytes used by the records: '!' '+' '5' '?' 'I'
QByte(k) == PhredOffset + 10 * k
QBang == QByte(0)
QPlus == QByte(1)
QFive == QByte(2)
QQuest == QByte(3)
QI == QByte(4)

Rec(id, seq, qual) == [id |-> id, seq |-> seq, qual |-> qual]

\* R1 read file, in file order; identifier a occurs twice
R1File ==
  << Rec(<<"a">>, <<"T">>, <<QBang>>),
     Rec(<<"a">>, <<"A">>, <<QI>>),
     Rec(<<"b">>, <<"A">>, <<QFive>>),
     Rec(<<"c">>, <<"T">>, <<QI>>),
     Rec(<<"d">>, <<"T">>, <<QPlus>>),
     Rec(<<"g">>, <<"A">>, <<QQuest>>),
     Rec(<<"e">>, <<"A">>, <<QI>>) >>

\* R2 read file, in file order; identifier c occurs twice
R2File ==
  << Rec(<<"c">>, <<"G">>, <<QBang>>),
     Rec(<<"a">>, <<"C">>, <<QQuest>>),
     Rec(<<"b">>, <<"C">>, <<QFive>>),
     Rec(<<"c">>, <<"T">>, <<QI>>),
     Rec(<<"d">>, <<"T">>, <<QBang>>),
     Rec(<<"g">>, <<"C">>, <<QI>>),
     Rec(<<"f">>, <<"C">>, <<QI>>) >>

\* hashmap_insert keeping the record already stored under the identifier
hashmap_insert_keep_first(index, rec) ==
  [k \in (DOMAIN index) \cup {rec.id} |->
     IF k \in DOMAIN index THEN index[k] ELSE rec]

\* index.insert(record.id().to_string(), record.clone()): the record replaces
\* whatever the identifier mapped to
hashmap_insert(index, rec) ==
  [k \in (DOMAIN index) \cup {rec.id} |->
     IF k = rec.id THEN rec ELSE index[k]]

\* HashMap::insert for every record of a file in file order: a later record
\* with the same identifier replaces the earlier one
RECURSIVE BuildIndex(_)
BuildIndex(file) ==
  IF file = <<>> THEN <<>>
  ELSE LET n    == Len(file)
           rest == BuildIndex(SubSeq(file, 1, n - 1))
           rec  == file[n]
       IN  hashmap_insert(rest, rec)

(* ------------------------- cluster file lines -------------------------- *)
Mem(c) == <<"0", ">", c, ".", ".", ".">>

Lines ==
  { <<">", "C">>,
    Mem("a"), Mem("b"), Mem("c"), Mem("d"), Mem("g"),
    Mem("e"), Mem("f"), Mem("z"),
    <<"0", "a">>,
    <<"0", ">", "a", ".", ".">>,
    <<"0", ">", "b", ">", "a", ".", ".", ".">>,
    <<"0", ">", "a", ".", ".", ".", ".", ".", ".">> }

\* line.starts_with('>')
starts_with_gt(l) == Len(l) >= 1 /\ l[1] = ">"

\* a literal "..." starts at position q of l
Dots3(l, q) == q + 2 <= Len(l) /\ l[q] = "." /\ l[q + 1] = "." /\ l[q + 2] = "."

\* positions of a '>' that the pattern .*>(.*)\.\.\. can match at
GtPos(l) == {p \in 1..Len(l) : l[p] = ">" /\ \E q \in (p + 1)..Len(l) : Dots3(l, q)}

\* re.captures(&line) is Some
re_is_match(l) == GtPos(l) # {}

\* cap[1]: both .* are greedy, so the match uses the last possible '>' and,
\* after it, the last "..."
re_capture(l) ==
  LET p == SetMax(GtPos(l))
      q == SetMax({x \in (p + 1)..Len(l) : Dots3(l, x)})
  IN  SubSeq(l, p + 1, q - 1)

(* ---------------------------- selector --------------------------------- *)
\* full_seq / full_qual of a pair: R1 followed by R2
full_seq(p) == p[1].seq \o p[2].seq
full_qual(p) == p[1].qual \o p[2].qual

\* 10^(-(q-33)/10), scaled by 10^4 (exact for the quality bytes above)
ErrScaled(q) == 10 ^ (4 - ((q - PhredOffset) \div 10))

RECURSIVE ErrSum(_)
ErrSum(qs) == IF qs = <<>> THEN 0 ELSE ErrScaled(Head(qs)) + ErrSum(Tail(qs))

\* scores[a] < scores[b] and scores[a] = scores[b]: the averages
\* ErrSum/Len are compared exactly by cross multiplication
ScoreLess(c, a, b) ==
  ErrSum(full_qual(c[a])) * Len(full_qual(c[b]))
    < ErrSum(full_qual(c[b])) * Len(full_qual(c[a]))
ScoreEq(c, a, b) ==
  ErrSum(full_qual(c[a])) * Len(full_qual(c[b]))
    = ErrSum(full_qual(c[b])) * Len(full_qual(c[a]))

\* IdxPos of a sort that puts the later of two equal scores first
IdxPos_later_first(c, m) ==
  1 + Cardinality({k \in 1..Len(c) :
        ScoreLess(c, k, m) \/ (ScoreEq(c, k, m) /\ k > m)})

\* idxs after the stable sort_by on scores: position of member m in idxs
IdxPos(c, m) ==
  1 + Cardinality({k \in 1..Len(c) :
        ScoreLess(c, k, m) \/ (ScoreEq(c, k, m) /\ k < m)})
idxs(c) == [k \in 1..Len(c) |-> CHOOSE m \in 1..Len(c) : IdxPos(c, m) = k]

\* counts: number of members per combined sequence
counts(c) ==
  [s \in {full_seq(c[m]) : m \in 1..Len(c)} |->
     Cardinality({m \in 1..Len(c) : full_seq(c[m]) = s})]

\* ConsensusSeqs with the count ignored: any sequence of the cluster
ConsensusSeqs_any(c) == DOMAIN counts(c)

\* ConsensusSeqs with the counts keyed on the R1 sequence alone
ConsensusSeqs_r1_only(c) ==
  LET n(s) == Cardinality({m \in 1..Len(c) : c[m][1].seq = s})
  IN  {c[m][1].seq : m \in {x \in 1..Len(c) :
                              \A y \in 1..Len(c) : n(c[y][1].seq) <= n(c[x][1].seq)}}

\* the sequences max_by_key over the HashMap's iteration order can return:
\* any sequence of largest count (the iteration order is unspecified)
ConsensusSeqs(c) ==
  LET cn == counts(c)
  IN  {s \in DOMAIN cn : \A t \in DOMAIN cn : cn[t] <= cn[s]}

\* best_index without the filter on the consensus sequence: best quality overall
best_index_overall(c, consensus_seq) == idxs(c)[1]

\* idxs.into_iter().find(|&i| seqs[i] == consensus_seq)
best_index(c, consensus_seq) ==
  LET ix == idxs(c)
  IN  ix[SetMin({k \in 1..Len(c) : full_seq(c[ix[k]]) = consensus_seq})]

\* pluck_best_read_from_cluster taking R2 from the first member of the cluster
pluck_mixed_mates(c) ==
  {<<c[best_index(c, s)][1], c[1][2]>> : s \in ConsensusSeqs(c)}

\* the pairs pluck_best_read_from_cluster can return; the empty set stands
\* for a panic: unwrap() of max_by_key on an empty cluster, or unwrap() of a
\* find that meets no member with the consensus sequence
pluck_best_read_from_cluster(c) ==
  {c[best_index(c, s)] :
     s \in {t \in ConsensusSeqs(c) : \E m \in 1..Len(c) : full_seq(c[m]) = t}}

\* select_best with the mates of a single member swapped
select_best_swapped(c) ==
  IF Len(c) = 1 THEN {<<c[1][2], c[1][1]>>} ELSE pluck_best_read_from_cluster(c)

\* the choice made on a boundary line: a cluster of one member is taken as
\* it is, every other cluster goes to the selector
select_best(c) ==
  IF Len(c) = 1 THEN {c[1]} ELSE pluck_best_read_from_cluster(c)

(* ------------------------------ parser --------------------------------- *)
Init ==
  /\ r1_index = BuildIndex(R1File)
  /\ r2_index = BuildIndex(R2File)
  /\ i = 0
  /\ line = <<>>
  /\ cluster = <<>>
  /\ cluster_count = 0
  /\ out1 = <<>>
  /\ out2 = <<>>
  /\ pc = "running"
  /\ reported = -1
  /\ completed = <<>>
  /\ skipped = 0
  /\ runA = <<>>
  /\ runB = <<>>
  /\ r1_file = R1File
  /\ r2_file = R2File
  /\ r1_read = Len(R1File)
  /\ r2_read = Len(R2File)
  /\ since = <<>>

\* Header with the boundary test made before the skip: a first line that
\* starts with '>' is counted
Header_counted(l) ==
  /\ pc = "running" /\ i = 0 /\ i < MaxLines
  /\ line' = l /\ i' = i + 1
  /\ cluster_count' = IF starts_with_gt(l) THEN cluster_count + 1 ELSE cluster_count
  /\ UNCHANGED reader_vars /\ UNCHANGED since
  /\ UNCHANGED <<r1_index, r2_index, cluster, out1, out2,
                 pc, reported, completed, skipped, runA, runB>>

\* i == 0: the first line is skipped
Header(l) ==
  /\ pc = "running" /\ i = 0 /\ i < MaxLines
  /\ line' = l /\ i' = i + 1
  /\ UNCHANGED reader_vars /\ UNCHANGED since
  /\ UNCHANGED <<r1_index, r2_index, cluster, cluster_count, out1, out2,
                 pc, reported, completed, skipped, runA, runB>>

\* Boundary without cluster.clear(): the members stay for the next cluster
Boundary_no_clear(l) ==
  /\ pc = "running" /\ i > 0 /\ i < MaxLines
  /\ starts_with_gt(l)
  /\ line' = l /\ i' = i + 1
  /\ cluster_count' = cluster_count + 1
  /\ completed' = Append(completed, cluster)
  /\ since' = <<>>
  /\ LET outcomes == select_best(cluster)
     IN  IF outcomes = {}
         THEN /\ pc' = "panicked"
              /\ UNCHANGED <<cluster, out1, out2, skipped>>
         ELSE \E best \in outcomes :
              /\ out1' = Append(out1, best[1])
              /\ out2' = Append(out2, best[2])
              /\ cluster' = cluster
              /\ skipped' = 0
              /\ pc' = pc
  /\ UNCHANGED reader_vars
  /\ UNCHANGED <<r1_index, r2_index, reported, runA, runB>>

\* a line starting with '>': count, select, write, clear
Boundary(l) ==
  /\ pc = "running" /\ i > 0 /\ i < MaxLines
  /\ starts_with_gt(l)
  /\ line' = l /\ i' = i + 1
  /\ cluster_count' = cluster_count + 1
  /\ completed' = Append(completed, cluster)
  /\ since' = <<>>
  /\ LET outcomes == select_best(cluster)
     IN  IF outcomes = {}
         THEN /\ pc' = "panicked"
              /\ UNCHANGED <<cluster, out1, out2, skipped>>
         ELSE \E best \in outcomes :
              /\ out1' = Append(out1, best[1])
              /\ out2' = Append(out2, best[2])
              /\ cluster' = <<>>
              /\ skipped' = 0
              /\ pc' = pc
  /\ UNCHANGED reader_vars
  /\ UNCHANGED <<r1_index, r2_index, reported, runA, runB>>

\* Member that does not push a pair the cluster already holds
Member_dedup(l) ==
  /\ pc = "running" /\ i > 0 /\ i < MaxLines
  /\ ~starts_with_gt(l) /\ re_is_match(l)
  /\ LET id == re_capture(l)
     IN  /\ id \in DOMAIN r1_index /\ id \in DOMAIN r2_index
         /\ cluster' =
              IF \E m \in 1..Len(cluster) : cluster[m] = <<r1_index[id], r2_index[id]>>
              THEN cluster
              ELSE Append(cluster, <<r1_index[id], r2_index[id]>>)
         /\ since' = Append(since, <<r1_index[id], r2_index[id]>>)
  /\ line' = l /\ i' = i + 1
  /\ UNCHANGED reader_vars
  /\ UNCHANGED <<r1_index, r2_index, cluster_count, out1, out2, pc,
                 reported, completed, skipped, runA, runB>>

\* a member line whose identifier is in both indices
Member(l) ==
  /\ pc = "running" /\ i > 0 /\ i < MaxLines
  /\ ~starts_with_gt(l) /\ re_is_match(l)
  /\ LET id == re_capture(l)
     IN  /\ id \in DOMAIN r1_index /\ id \in DOMAIN r2_index
         /\ cluster' = Append(cluster, <<r1_index[id], r2_index[id]>>)
         /\ since' = Append(since, <<r1_index[id], r2_index[id]>>)
  /\ line' = l /\ i' = i + 1
  /\ UNCHANGED reader_vars
  /\ UNCHANGED <<r1_index, r2_index, cluster_count, out1, out2, pc,
                 reported, completed, skipped, runA, runB>>

\* a member line whose identifier is missing from an index: error! only
Missing(l) ==
  /\ pc = "running" /\ i > 0 /\ i < MaxLines
  /\ ~starts_with_gt(l) /\ re_is_match(l)
  /\ LET id == re_capture(l)
     IN  ~(id \in DOMAIN r1_index /\ id \in DOMAIN r2_index)
  /\ line' = l /\ i' = i + 1
  /\ skipped' = skipped + 1
  /\ UNCHANGED reader_vars /\ UNCHANGED since
  /\ UNCHANGED <<r1_index, r2_index, cluster, cluster_count, out1, out2, pc,
                 reported, completed, runA, runB>>

\* Malformed with the missing capture unwrapped: the run aborts
Malformed_unwrap(l) ==
  /\ pc = "running" /\ i > 0 /\ i < MaxLines
  /\ ~starts_with_gt(l) /\ ~re_is_match(l)
  /\ line' = l /\ i' = i + 1
  /\ pc' = "panicked"
  /\ UNCHANGED reader_vars /\ UNCHANGED since
  /\ UNCHANGED <<r1_index, r2_index, cluster, cluster_count, out1, out2,
                 reported, completed, skipped, runA, runB>>

\* a line the pattern does not match: warn! only
Malformed(l) ==
  /\ pc = "running" /\ i > 0 /\ i < MaxLines
  /\ ~starts_with_gt(l) /\ ~re_is_match(l)
  /\ line' = l /\ i' = i + 1
  /\ UNCHANGED reader_vars /\ UNCHANGED since
  /\ UNCHANGED <<r1_index, r2_index, cluster, cluster_count, out1, out2, pc,
                 reported, completed, skipped, runA, runB>>

\* Eof with the cluster left open counted in the summary
Eof_counts_last ==
  /\ pc = "running"
  /\ pc' = "done"
  /\ reported' = cluster_count + 1
  /\ UNCHANGED reader_vars /\ UNCHANGED since
  /\ UNCHANGED <<r1_index, r2_index, i, line, cluster, cluster_count,
                 out1, out2, completed, skipped, runA, runB>>

\* end of input: the loop ends and the summary is printed
Eof ==
  /\ pc = "running"
  /\ pc' = "done"
  /\ reported' = cluster_count
  /\ UNCHANGED reader_vars /\ UNCHANGED since
  /\ UNCHANGED <<r1_index, r2_index, i, line, cluster, cluster_count,
                 out1, out2, completed, skipped, runA, runB>>

Next ==
  \/ \E l \in Lines : Header(l)
  \/ \E l \in Lines : Boundary(l)
  \/ \E l \in Lines : Member(l)
  \/ \E l \in Lines : Missing(l)
  \/ \E l \in Lines : Malformed(l)
  \/ Eof

Spec == Init /\ [][Next]_vars

(* ------------------- the selector on its own --------------------------- *)
\* the pairs a member line can resolve to
ResolvedPairs ==
  LET r1 == BuildIndex(R1File)
      r2 == BuildIndex(R2File)
  IN  {<<r1[id], r2[id]>> : id \in (DOMAIN r1) \cap (DOMAIN r2)}

SelClusters == UNION {[1..n -> ResolvedPairs] : n \in 0..MaxSel}

InitSel ==
  /\ r1_index = BuildIndex(R1File)
  /\ r2_index = BuildIndex(R2File)
  /\ i = 0
  /\ line = <<>>
  /\ cluster \in SelClusters
  /\ cluster_count = 0
  /\ out1 = <<>>
  /\ out2 = <<>>
  /\ pc = "select"
  /\ reported = -1
  /\ completed = <<>>
  /\ skipped = 0
  /\ runA = <<>>
  /\ runB = <<>>
  /\ r1_file = R1File
  /\ r2_file = R2File
  /\ r1_read = Len(R1File)
  /\ r2_read = Len(R2File)
  /\ since = <<>>

\* one run of pluck_best_read_from_cluster on the cluster
SelectA ==
  /\ pc = "select" /\ runA = <<>>
  /\ \E best \in pluck_best_read_from_cluster(cluster) : runA' = <<best>>
  /\ UNCHANGED reader_vars /\ UNCHANGED since
  /\ UNCHANGED <<r1_index, r2_index, i, line, cluster, cluster_count,
                 out1, out2, pc, reported, completed, skipped, runB>>

\* another run of it on the same cluster
SelectB ==
  /\ pc = "select" /\ runB = <<>>
  /\ \E best \in pluck_best_read_from_cluster(cluster) : runB' = <<best>>
  /\ UNCHANGED reader_vars /\ UNCHANGED since
  /\ UNCHANGED <<r1_index, r2_index, i, line, cluster, cluster_count,
                 out1, out2, pc, reported, completed, skipped, runA>>

\* unwrap() on None
SelectPanic ==
  /\ pc = "select"
  /\ pluck_best_read_from_cluster(cluster) = {}
  /\ pc' = "panicked"
  /\ UNCHANGED reader_vars /\ UNCHANGED since
  /\ UNCHANGED <<r1_index, r2_index, i, line, cluster, cluster_count,
                 out1, out2, reported, completed, skipped, runA, runB>>

NextSel == SelectA \/ SelectB \/ SelectPanic

SpecSel == InitSel /\ [][NextSel]_vars

(* ============================== claims ================================= *)
\* the step just taken read a non-header line of the given kind
BoundaryStep == pc = "running" /\ i > 0 /\ i' = i + 1 /\ starts_with_gt(line')
MemberLineStep ==
  pc = "running" /\ i > 0 /\ i' = i + 1 /\ ~starts_with_gt(line')
MissingStep ==
  /\ MemberLineStep /\ re_is_match(line')
  /\ ~(re_capture(line') \in DOMAIN r1_index /\ re_capture(line') \in DOMAIN r2_index)
MalformedStep == MemberLineStep /\ ~re_is_match(line')

\* the last pair written is a member of cluster c
LastWrittenFrom(c) ==
  /\ out1 # <<>> /\ out2 # <<>>
  /\ \E m \in 1..Len(c) : out1[Len(out1)] = c[m][1] /\ out2[Len(out2)] = c[m][2]

\* number of members of c with combined sequence s; average error of p
\* not above / below that of q
SeqCount(c, s) == Cardinality({m \in 1..Len(c) : full_seq(c[m]) = s})
AvgLeq(p, q) ==
  ErrSum(full_qual(p)) * Len(full_qual(q)) <= ErrSum(full_qual(q)) * Len(full_qual(p))
AvgLess(p, q) == ~AvgLeq(q, p)

\* C1: at end of input the final current_cluster is flushed: when the run is
\* done and the last lines left resolved members in current_cluster, one of
\* them has been written to both outputs, as one more pair than the boundary
\* lines closed clusters.
C1_EofFlush ==
  (pc = "done" /\ cluster # <<>>) =>
     /\ Len(out1) = Len(completed) + 1
     /\ Len(out2) = Len(completed) + 1
     /\ LastWrittenFrom(cluster)

\* C2: when the run ends, the number of pairs written equals the number of
\* boundary lines encountered plus one for the end-of-file flush.
C2_CountConservation ==
  pc = "done" =>
     /\ Len(out1) = cluster_count + 1
     /\ Len(out2) = cluster_count + 1

\* C3: in a cluster of two or more members where one combined sequence is
\* shared by strictly more members than any other, the selector returns a
\* member with that sequence whose average error is the least among the
\* members with that sequence, never a member with another sequence.
C3_ConsensusCorrect ==
  \A s \in {full_seq(cluster[m]) : m \in 1..Len(cluster)} :
    ( /\ runA # <<>>
      /\ Len(cluster) >= 2
      /\ \A t \in {full_seq(cluster[m]) : m \in 1..Len(cluster)} :
            t # s => SeqCount(cluster, t) < SeqCount(cluster, s) )
    => /\ \E m \in 1..Len(cluster) : runA[1] = cluster[m]
       /\ full_seq(runA[1]) = s
       /\ \A m \in 1..Len(cluster) :
            full_seq(cluster[m]) = s => AvgLeq(runA[1], cluster[m])

\* the selector has returned from a cluster where another sequence has a
\* member of strictly better quality and the consensus group has a worse one
C3_Witness ==
  /\ pc = "select" /\ runA # <<>> /\ Len(cluster) >= 3
  /\ \A m \in 1..Len(cluster) :
       full_seq(cluster[m]) # full_seq(runA[1]) =>
         SeqCount(cluster, full_seq(cluster[m])) < SeqCount(cluster, full_seq(runA[1]))
  /\ \E m \in 1..Len(cluster) :
       full_seq(cluster[m]) # full_seq(runA[1]) /\ AvgLess(cluster[m], runA[1])
  /\ \E m \in 1..Len(cluster) :
       full_seq(cluster[m]) = full_seq(runA[1]) /\ AvgLess(runA[1], cluster[m])

\* C4: per-line and per-member errors never abort the run: whatever header,
\* boundary, malformed, unresolved and resolved lines are read, the run does
\* not end in a fatal error.
C4_NeverAborts == pc # "panicked"

\* C5: a boundary line read while current_cluster is empty increments the
\* cluster ordinal, leaves current_cluster empty and parsing continues.
C5_EmptyBoundary ==
  [][(BoundaryStep /\ cluster = <<>>) =>
       (cluster_count' = cluster_count + 1 /\ cluster' = <<>> /\ pc' = "running")]_vars

\* C6: a cluster emitted with exactly one resolved member writes exactly
\* that member's R1 and R2 records.
C6_SingletonPassThrough ==
  [][(BoundaryStep /\ Len(cluster) = 1) =>
       /\ out1' = Append(out1, cluster[1][1])
       /\ out2' = Append(out2, cluster[1][2])]_vars

\* a cluster of one member of the worst quality has been emitted unchanged
C6_Witness ==
  \E k \in 1..Len(out1) :
    /\ Len(completed[k]) = 1
    /\ out1[k] = completed[k][1][1] /\ out2[k] = completed[k][1][2]
    /\ \A p \in ResolvedPairs : AvgLeq(p, completed[k][1])

\* C7: a member line whose identifier is missing from an index appends
\* nothing and leaves the members, the ordinal and the outputs unchanged, and
\* a cluster that saw such a line and keeps a resolved member has had a
\* representative written for it when the run is done.
C7_MissingIdResilience ==
  /\ [][MissingStep => UNCHANGED <<cluster, cluster_count, out1, out2>>]_vars
  /\ []((pc = "done" /\ skipped > 0 /\ cluster # <<>>) =>
          (Len(out1) = Len(completed) + 1 /\ LastWrittenFrom(cluster)))

\* C8: a non-boundary line without the >ID... pattern leaves current_cluster,
\* the ordinal and both outputs unchanged and does not end the run: only the
\* line position moves, so the following lines are processed as without it.
C8_MalformedSkipped ==
  [][MalformedStep =>
       /\ UNCHANGED <<r1_index, r2_index, cluster, cluster_count, out1, out2,
                      reported, completed, skipped, since>>
       /\ pc' = "running"]_vars

\* a malformed line was read in the middle of a cluster, after an emission
C8_Witness ==
  /\ pc = "running" /\ i > 1
  /\ ~starts_with_gt(line) /\ ~re_is_match(line)
  /\ cluster # <<>> /\ out1 # <<>>

\* C9: the k-th record of the R1 output and the k-th record of the R2 output
\* are the R1 and R2 records of one member of the k-th cluster the parser
\* completed; nothing is reordered, held back or dropped as a duplicate.
C9_OrderAndPairing ==
  /\ Len(out1) = Len(out2)
  /\ Len(out1) <= Len(completed)
  /\ (pc = "running" => Len(out1) = Len(completed))
  /\ \A k \in 1..Len(out1) :
       \E m \in 1..Len(completed[k]) :
         out1[k] = completed[k][m][1] /\ out2[k] = completed[k][m][2]

\* two clusters of different members were completed and two different
\* pairs written, each from its own cluster
C9_Witness ==
  /\ Len(out1) = 2 /\ Len(out2) = 2 /\ Len(completed) = 2
  /\ out1[1] # out1[2] /\ out2[1] # out2[2]
  /\ \A m \in 1..Len(completed[1]) : completed[1][m] # <<out1[2], out2[2]>>
  /\ \A m \in 1..Len(completed[2]) : completed[2][m] # <<out1[1], out2[1]>>

\* C10: for a cluster whose consensus group is a strict majority and whose
\* members' average errors are pairwise distinct, two runs of the selector
\* return the same member.
C10_Deterministic ==
  ( /\ runA # <<>> /\ runB # <<>>
    /\ \E m \in 1..Len(cluster) :
         2 * SeqCount(cluster, full_seq(cluster[m])) > Len(cluster)
    /\ \A m, n \in 1..Len(cluster) :
         m # n => ~(AvgLeq(cluster[m], cluster[n]) /\ AvgLeq(cluster[n], cluster[m])) )
  => runA = runB

\* both runs returned from a cluster of three members with two sequences, a
\* strict majority and distinct average errors
C10_Witness ==
  /\ pc = "select" /\ runA # <<>> /\ runB # <<>> /\ Len(cluster) >= 3
  /\ \E m \in 1..Len(cluster) :
       2 * SeqCount(cluster, full_seq(cluster[m])) > Len(cluster)
  /\ \E m, n \in 1..Len(cluster) : full_seq(cluster[m]) # full_seq(cluster[n])
  /\ \A m, n \in 1..Len(cluster) :
       m # n => ~(AvgLeq(cluster[m], cluster[n]) /\ AvgLeq(cluster[n], cluster[m]))

\* the combined sequence of largest count that appears first in member order
FirstSeenConsensus(c) ==
  LET top == {m \in 1..Len(c) :
                \A n \in 1..Len(c) :
                  SeqCount(c, full_seq(c[n])) <= SeqCount(c, full_seq(c[m]))}
  IN  full_seq(c[SetMin(top)])

\* C11: when several combined sequences tie for the largest group, the
\* consensus group is the one whose sequence appears first in member order,
\* so every run of the selector on a cluster returns a member of that group.
C11_TieBreakFirstSeen ==
  (runA # <<>> /\ cluster # <<>>) => full_seq(runA[1]) = FirstSeenConsensus(cluster)

\* the text between the last '>' that a "..." follows and the first "..."
\* after that '>'
FirstDotsId(l) ==
  LET p == SetMax(GtPos(l))
      q == SetMin({x \in (p + 1)..Len(l) : Dots3(l, x)})
  IN  SubSeq(l, p + 1, q - 1)

\* C12: on a member line with a '>' followed later by "...", the identifier
\* looked up in the indices is the text between the last '>' and the first
\* "..." after it: the pair of that identifier is appended when both indices
\* hold it, and nothing is appended otherwise.
C12_IdUpToFirstDots ==
  [][(MemberLineStep /\ re_is_match(line')) =>
       LET id == FirstDotsId(line')
       IN  IF id \in DOMAIN r1_index /\ id \in DOMAIN r2_index
           THEN cluster' = Append(cluster, <<r1_index[id], r2_index[id]>>)
           ELSE cluster' = cluster]_vars

\* C13: the first line of the cluster file never changes the parser state:
\* a first line that starts with '>' is not counted and emits nothing, and a
\* first line that is a valid member line appends nothing.
C13_HeaderSkipped ==
  [][(pc = "running" /\ i = 0 /\ i' = 1) =>
       UNCHANGED <<cluster, cluster_count, out1, out2, pc, reported,
                   completed, skipped>>]_vars

\* a boundary line was read as the first line and nothing was counted
C13_Witness ==
  /\ pc = "running" /\ i = 1 /\ starts_with_gt(line)
  /\ cluster_count = 0 /\ cluster = <<>> /\ out1 = <<>> /\ out2 = <<>>

(* --------------------- index construction on its own ------------------- *)
\* the records the read files of this specification are made of
IdxRecords ==
  { Rec(<<"a">>, <<"A">>, <<QI>>),
    Rec(<<"a">>, <<"T">>, <<QBang>>),
    Rec(<<"b">>, <<"A">>, <<QFive>>) }

ReadFiles == UNION {[1..n -> IdxRecords] : n \in 0..MaxRecs}

InitIdx ==
  /\ r1_file \in ReadFiles
  /\ r2_file \in ReadFiles
  /\ r1_read = 0
  /\ r2_read = 0
  /\ r1_index = <<>>
  /\ r2_index = <<>>
  /\ pc = "index_r1"
  /\ i = 0
  /\ line = <<>>
  /\ cluster = <<>>
  /\ cluster_count = 0
  /\ out1 = <<>>
  /\ out2 = <<>>
  /\ reported = -1
  /\ completed = <<>>
  /\ skipped = 0
  /\ runA = <<>>
  /\ runB = <<>>
  /\ since = <<>>

idx_frame ==
  UNCHANGED <<i, line, cluster, cluster_count, out1, out2, reported,
              completed, skipped, runA, runB, since, r1_file, r2_file>>

\* one turn of the loop over r1_reader.records()
IndexR1 ==
  /\ pc = "index_r1" /\ r1_read < Len(r1_file)
  /\ r1_index' = hashmap_insert(r1_index, r1_file[r1_read + 1])
  /\ r1_read' = r1_read + 1
  /\ UNCHANGED <<r2_index, r2_read, pc>>
  /\ idx_frame

\* the R1 reader is exhausted: on to the R2 file
EndR1 ==
  /\ pc = "index_r1" /\ r1_read = Len(r1_file)
  /\ pc' = "index_r2"
  /\ UNCHANGED <<r1_index, r2_index, r1_read, r2_read>>
  /\ idx_frame

\* one turn of the loop over r2_reader.records()
IndexR2 ==
  /\ pc = "index_r2" /\ r2_read < Len(r2_file)
  /\ r2_index' = hashmap_insert(r2_index, r2_file[r2_read + 1])
  /\ r2_read' = r2_read + 1
  /\ UNCHANGED <<r1_index, r1_read, pc>>
  /\ idx_frame

\* the R2 reader is exhausted: both indices are built
EndR2 ==
  /\ pc = "index_r2" /\ r2_read = Len(r2_file)
  /\ pc' = "indexed"
  /\ UNCHANGED <<r1_index, r2_index, r1_read, r2_read>>
  /\ idx_frame

NextIdx == IndexR1 \/ EndR1 \/ IndexR2 \/ EndR2

SpecIdx == InitIdx /\ [][NextIdx]_vars

\* the last record of file with the identifier id
LastOcc(file, id) == file[SetMax({k \in 1..Len(file) : file[k].id = id})]

\* index maps exactly the identifiers of the first n records of file, each
\* to its last occurrence among them
LastWins(index, file, n) ==
  /\ DOMAIN index = {file[k].id : k \in 1..n}
  /\ \A id \in DOMAIN index : index[id] = LastOcc(SubSeq(file, 1, n), id)

\* C14: after index construction over a read file each identifier maps to
\* the record of its last occurrence in file order, for R1 and for R2 on
\* their own, so the pair a member line resolves to is made of the later
\* records.
C14_LastWriteWins ==
  /\ LastWins(r1_index, r1_file, r1_read)
  /\ LastWins(r2_index, r2_file, r2_read)
  /\ pc = "indexed" =>
       \A l \in Lines :
         (re_is_match(l) /\ re_capture(l) \in (DOMAIN r1_index) \cap (DOMAIN r2_index)) =>
           <<r1_index[re_capture(l)], r2_index[re_capture(l)]>>
             = <<LastOcc(r1_file, re_capture(l)), LastOcc(r2_file, re_capture(l))>>

\* both indices are built from files that repeat an identifier with another
\* record, at different places in the two files, and a member line resolves
\* to the later records
C14_Witness ==
  /\ pc = "indexed"
  /\ Len(r1_file) = 3 /\ Len(r2_file) = 3
  /\ r1_file[1].id = <<"a">> /\ r1_file[3].id = <<"a">> /\ r1_file[1] # r1_file[3]
  /\ r2_file[1].id = <<"a">> /\ r2_file[2].id = <<"a">> /\ r2_file[1] # r2_file[2]
  /\ r2_file[3].id = <<"b">>
  /\ r1_index[re_capture(Mem("a"))] = r1_file[3]
  /\ r2_index[re_capture(Mem("a"))] = r2_file[2]

\* C15: after a cluster is emitted on a boundary line current_cluster is
\* empty, and current_cluster holds exactly the pairs resolved from the
\* member lines read since the last boundary line, so the pair emitted on a
\* boundary line is one of those and no member of an earlier cluster is
\* selected for, or counted in, a later cluster.
C15_ClusterIsolation ==
  /\ [](cluster = since)
  /\ [][(BoundaryStep /\ pc' = "running") =>
          /\ cluster' = <<>>
          /\ \E m \in 1..Len(since) :
               /\ out1' = Append(out1, since[m][1])
               /\ out2' = Append(out2, since[m][2])]_vars

\* a second cluster was emitted and is empty again; its representative is
\* no member of the first cluster, whose member has the better quality
C15_Witness ==
  /\ pc = "running" /\ Len(out1) = 2 /\ Len(completed) = 2 /\ cluster = <<>>
  /\ \A m \in 1..Len(completed[1]) :
       /\ completed[1][m] # <<out1[2], out2[2]>>
       /\ AvgLess(completed[1][m], <<out1[2], out2[2]>>)

\* the member line just read resolved in both indices
ResolvedStep ==
  /\ MemberLineStep /\ re_is_match(line')
  /\ re_capture(line') \in DOMAIN r1_index /\ re_capture(line') \in DOMAIN r2_index

\* C18: the length of current_cluster is the number of member lines read
\* since the last boundary line (or the header) whose identifier resolved in
\* both indices; a member line for an identifier the cluster already holds
\* appends its pair again, and the repeated pair is counted again in the
\* consensus vote.
C18_MembershipCount ==
  /\ [](Len(cluster) = Len(since))
  /\ [][ResolvedStep =>
          cluster' = Append(cluster, <<r1_index[re_capture(line')],
                                       r2_index[re_capture(line')]>>)]_vars
  /\ [][(BoundaryStep /\ Len(cluster) >= 2) =>
          \A m \in 1..Len(cluster) :
            (\A n \in 1..Len(cluster) :
               full_seq(cluster[n]) # full_seq(cluster[m]) =>
                 SeqCount(cluster, full_seq(cluster[n]))
                   < SeqCount(cluster, full_seq(cluster[m])))
            => (out1' # out1 /\ full_seq(<<out1'[Len(out1')], out2'[Len(out2')]>>)
                                  = full_seq(cluster[m]))]_vars

\* a cluster of three member lines, two of them for the same identifier,
\* was emitted: the repeated pair won the vote against a better member
C18_Witness ==
  \E k \in 1..Len(out1) :
    /\ Len(completed[k]) = 3
    /\ \E m, n \in 1..3 :
         /\ m # n /\ completed[k][m] = completed[k][n]
         /\ completed[k][m] = <<out1[k], out2[k]>>
    /\ \E m \in 1..3 :
         /\ full_seq(completed[k][m]) # full_seq(<<out1[k], out2[k]>>)
         /\ AvgLess(completed[k][m], <<out1[k], out2[k]>>)

\* C16: for a non-empty cluster every consensus sequence the selector can
\* compute is the combined sequence of some member, so the search for a
\* member with it never fails, and the pair returned is one member of the
\* cluster, R1 and R2 together.
C16_SelectorTotal ==
  cluster # <<>> =>
    /\ ConsensusSeqs(cluster) # {}
    /\ \A s \in ConsensusSeqs(cluster) :
         \E m \in 1..Len(cluster) : full_seq(cluster[m]) = s
    /\ pc # "panicked"
    /\ runA # <<>> => \E m \in 1..Len(cluster) : runA[1] = cluster[m]
    /\ runB # <<>> => \E m \in 1..Len(cluster) : runB[1] = cluster[m]

\* the selector returned a member of a cluster of different pairs in which
\* two sequences tie for the largest count
C16_Witness ==
  /\ pc = "select" /\ runA # <<>> /\ Len(cluster) >= 2
  /\ Cardinality(ConsensusSeqs(cluster)) >= 2
  /\ \E m \in 1..Len(cluster) : runA[1] = cluster[m]
  /\ \E m \in 1..Len(cluster) : runA[1] # cluster[m]

\* C17: among the members of the consensus group that share the least
\* average error, the selector returns the one that comes first in the
\* cluster's member order.
C17_StableTieBreak ==
  runA # <<>> =>
    LET grp  == {m \in 1..Len(cluster) : full_seq(cluster[m]) = full_seq(runA[1])}
        best == {m \in grp : \A n \in grp : AvgLeq(cluster[m], cluster[n])}
    IN  runA[1] = cluster[SetMin(best)]

\* the selector returned the earlier of two different members of the
\* consensus group that share the least average error
C17_Witness ==
  /\ pc = "select" /\ runA # <<>>
  /\ \E m, n \in 1..Len(cluster) :
       /\ m < n /\ cluster[m] # cluster[n]
       /\ full_seq(cluster[m]) = full_seq(cluster[n])
       /\ AvgLeq(cluster[m], cluster[n]) /\ AvgLeq(cluster[n], cluster[m])
       /\ \A k \in 1..Len(cluster) :
            full_seq(cluster[k]) = full_seq(cluster[m]) => AvgLeq(cluster[m], cluster[k])
       /\ runA[1] = cluster[m]

\* C19: after each cluster-file line has been processed the R1 output, the
\* R2 output and cluster_count agree, and the count reported at the end of a
\* completed run is the number of pairs written.
C19_ReportedCount ==
  /\ pc \in {"running", "done"} =>
       (Len(out1) = cluster_count /\ Len(out2) = cluster_count)
  /\ pc = "done" => (reported = Len(out1) /\ reported = Len(out2))

\* a run with two emissions has completed and reported 2
C19_Witness ==
  pc = "done" /\ reported = 2 /\ Len(out1) = 2 /\ Len(out2) = 2

====
